---- MODULE Spec2Model ----
(***************************************************************************)
(* The Yr.no weather sensor (homeassistant/components/sensor/yr.py) and    *)
(* the Z-Wave device_config view exercised by                              *)
(* tests/components/config/test_zwave.py, as state machines.               *)
(*                                                                         *)
(* Time is UTC in whole seconds.  A fetch is one suspended async_update    *)
(* coroutine: it is issued at an instant and completes at the same        *)
(* instant, at a later instant at which some other callback runs, or at   *)
(* its 10 second timeout.                                                  *)
(***************************************************************************)
EXTENDS Integers, Sequences, FiniteSets, TLC

VARIABLES
    now,        \* dt_util.utcnow(), seconds
    forecast,   \* YrData._forecast, hours
    nextrun,    \* YrData._nextrun, NoTime for None
    data,       \* YrData.data
    state,      \* YrSensor._state of every device, by sensor type
    hourly,     \* next instant the async_track_utc_time_change listener fires
    points,     \* instants armed with async_track_point_in_utc_time, in order
    fetching,   \* issue instants of the async_update coroutines suspended in get
    pending,    \* the setup's own "yield from weather.async_update()" has not run
    tasks,      \* devices whose async_update_ha_state the last refresh dispatched
    good,       \* history: the last document fetched and parsed with no error
    last,       \* history: what the last completed refresh did
    skipped,    \* history: failure instants after which no retry was armed
    overlapped, \* history: two fetches have been in flight together
    failed,     \* history: a refresh has failed and no fetch was issued since
    stored,     \* Z-Wave: the device configuration file
    written,    \* Z-Wave: the configurations the last request wrote
    resp        \* Z-Wave: the last response

yrvars == <<now, forecast, nextrun, data, state, hourly, points, fetching,
            pending, tasks, good, last, skipped, overlapped, failed>>
zwvars == <<stored, written, resp>>
vars == <<now, forecast, nextrun, data, state, hourly, points, fetching,
          pending, tasks, good, last, skipped, overlapped, failed, stored,
          written, resp>>

-----------------------------------------------------------------------------
(* Bounds of the model *)

\* longest forecast document, in time entries
MaxEntries == 2
\* the model's horizon, in seconds
MaxTime == 4600

(* Program constants *)

\* async_timeout.timeout(10)
FetchTimeout == 10
\* timedelta(minutes=15), in seconds
RetryDelay == 900
\* if nxt.minute >= 15
RetryGate == 15
\* the hourly listener's period, in seconds
HourSeconds == 3600
\* self._nextrun = None
NoTime == -1

Minute(t) == (t \div 60) % 60
Hour(t) == t \div HourSeconds

Abs(x) == IF x < 0 THEN -x ELSE x

SetMin(S) == CHOOSE x \in S : \A y \in S : x <= y

-----------------------------------------------------------------------------
(* Values.  The attributes xmltodict yields are strings; a string holding  *)
(* the number n is Str(n), and float() of it is Float(n).                  *)

Str(n) == [kind |-> "str", num |-> n]
Float(n) == [kind |-> "float", num |-> n]
None == [kind |-> "none", num |-> 0]

\* float(s)
ToFloat(s) == Float(s.num)

\* the sensors of the configuration (CONF_MONITORED_CONDITIONS)
Devices == {"temperature", "windDirection"}

\* the attribute each sensor type's state is read from
Attribute(type) ==
    CASE type = "precipitation" -> "@value"
      [] type = "symbol" -> "@number"
      [] type \in {"temperature", "pressure", "humidity",
                   "dewpointTemperature"} -> "@value"
      [] type \in {"windSpeed", "windGust"} -> "@mps"
      [] type = "windDirection" -> "@deg"
      [] type \in {"fog", "cloudiness", "lowClouds", "mediumClouds",
                   "highClouds"} -> "@percent"

\* new_state of a device of this type from an entry's location that holds it
Extract(type, loc_data) ==
    IF type = "windDirection"
    THEN ToFloat(loc_data[type][Attribute(type)])
    ELSE loc_data[type][Attribute(type)]

-----------------------------------------------------------------------------
(* Forecast documents *)

\* the element of one variable: the attribute the sensor reads, and its id
Element(type, n) ==
    [a \in {Attribute(type), "@id"} |-> IF a = "@id" THEN Str(0) ELSE Str(n)]

\* the values a variable takes in the model's documents
ValuesOf(type) == IF type = "temperature" THEN {1, 2} ELSE {1}

\* the validity windows of the model's entries, <<from, to>> in seconds
Windows == {<<0, 3600>>, <<3600, 7200>>, <<0, 7200>>}

\* the locations: every set of variables, every value of each
Locations ==
    UNION {[vs -> {1, 2}] : vs \in SUBSET Devices}

LocationData ==
    {[t \in DOMAIN f |-> Element(t, f[t])] :
        f \in {g \in Locations : \A t \in DOMAIN g : g[t] \in ValuesOf(t)}}

Entries ==
    {[from |-> w[1], to |-> w[2], location |-> l] :
        w \in Windows, l \in LocationData}

SeqsUpTo(S, n) == UNION {[1..k -> S] : k \in 0..n}

\* every product.time list of at most MaxEntries entries
AllDocs == SeqsUpTo(Entries, MaxEntries)

-----------------------------------------------------------------------------
(* The selection of async_update: the time entries that have not passed,  *)
(* ordered by their distance to the forecast time.                         *)

\* now + timedelta(hours=self._forecast)
ForecastTime(t, fc) == t + fc * HourSeconds

\* the comparison without its equality: an entry that ends now is kept
ExpiredStrict(entry, t) == t > entry.to

\* if now >= valid_to: continue
Expired(entry, t) == t >= entry.to

\* the distance of the entry's end alone
DistOfEnd(entry, ft) == Abs(entry.to - ft)

\* average_dist: the sum of the two distances, in seconds
Dist(entry, ft) == Abs(entry.to - ft) + Abs(entry.from - ft)

\* ordered_entries before the sort: (average_dist, time_entry) of every
\* entry that has not passed, in document order; idx is the entry's place
Retained(time, t, fc) ==
    SelectSeq([i \in 1..Len(time) |->
                  [dist |-> Dist(time[i], ForecastTime(t, fc)), idx |-> i]],
              LAMBDA p : ~Expired(time[p.idx], t))

\* one step of a sort that is not stable: x goes before the items of its key
RECURSIVE InsertBefore(_, _)
InsertBefore(sorted, x) ==
    IF sorted = <<>> THEN <<x>>
    ELSE IF Head(sorted).dist < x.dist
         THEN <<Head(sorted)>> \o InsertBefore(Tail(sorted), x)
         ELSE <<x>> \o sorted

\* one step of the stable sort: x goes behind every item whose key is not
\* greater than its own
RECURSIVE Insert(_, _)
Insert(sorted, x) ==
    IF sorted = <<>> THEN <<x>>
    ELSE IF Head(sorted).dist <= x.dist
         THEN <<Head(sorted)>> \o Insert(Tail(sorted), x)
         ELSE <<x>> \o sorted

\* ordered_entries.sort(key=lambda item: item[0])
RECURSIVE SortByDist(_)
SortByDist(items) ==
    IF items = <<>> THEN <<>>
    ELSE Insert(SortByDist(SubSeq(items, 1, Len(items) - 1)),
                items[Len(items)])

OrderedEntries(time, t, fc) == SortByDist(Retained(time, t, fc))

\* the inner for loop: the place in the document of the first ordered entry
\* whose location holds the device's type, 0 when no entry holds it
RECURSIVE Scan(_, _, _)
Scan(type, ordered, time) ==
    IF ordered = <<>> THEN 0
    ELSE IF type \notin DOMAIN time[Head(ordered).idx].location
         THEN Scan(type, Tail(ordered), time)
         ELSE Head(ordered).idx

\* new_state of a device
NewState(type, ordered, time) ==
    IF Scan(type, ordered, time) = 0 THEN None
    ELSE Extract(type, time[Scan(type, ordered, time)].location)

\* the new state compared with None, not with the state held
ChangedFromNone(new, old) == new # None

\* if new_state != dev._state
Changed(new, old) == new # old

NoSelection == [dev \in Devices |-> 0]

\* lines 201-262 on document time at instant t, the devices holding st:
\* the devices' new states, the state-update tasks and the entries used
Select(time, t, fc, st) ==
    LET ordered == OrderedEntries(time, t, fc)
    IN  IF ordered # <<>>
        THEN [state |-> [dev \in Devices |->
                            NewState(dev, ordered, time)],
              tasks |-> {dev \in Devices :
                            Changed(NewState(dev, ordered, time), st[dev])},
              sel |-> [dev \in Devices |-> Scan(dev, ordered, time)],
              any |-> TRUE]
        ELSE [state |-> st, tasks |-> {}, sel |-> NoSelection, any |-> FALSE]

-----------------------------------------------------------------------------
(* The server's answers *)

\* self.data = {}
NoData == [loaded |-> FALSE, model |-> [list |-> FALSE, runs |-> <<>>],
           time |-> <<>>]

\* a response: the exception get or text raises ("none" for none), the
\* status, and the text: whether it is well-formed XML, the meta.model
\* element (one dict, or a list of dicts) with the parsed @nextrun of each,
\* and product.time
Response(exc, status, xml, model, time) ==
    [exc |-> exc, status |-> status,
     text |-> [xml |-> xml, model |-> model, time |-> time]]

NoModel == [list |-> FALSE, runs |-> <<>>]

FailedResponses ==
    {Response(e, 200, FALSE, NoModel, <<>>) :
        e \in {"TimeoutError", "ClientError"}}
    \cup {Response("none", 503, FALSE, NoModel, <<>>),
          Response("none", 200, FALSE, NoModel, <<>>)}

\* the model elements: a dict, a list of two dicts, a list of none
ModelsOf(runs) ==
    {[list |-> FALSE, runs |-> <<r>>] : r \in runs}
    \cup {[list |-> TRUE, runs |-> <<r, NoTime>>] : r \in runs}
    \cup {[list |-> TRUE, runs |-> <<>>]}

BodiesOf(docs, runs) ==
    {Response("none", 200, TRUE, m, d) : m \in ModelsOf(runs), d \in docs}

\* the documents of the scheduling model: one entry that holds every
\* variable, valid from the first hour on
ServerDocs ==
    {d \in AllDocs : /\ Len(d) = 1
                     /\ d[1].from = 0
                     /\ DOMAIN d[1].location = Devices}

\* @nextrun of the scheduling model's documents
ServerRuns == {1800}

ServerResponses == FailedResponses \cup BodiesOf(ServerDocs, ServerRuns)

\* the selection model: every document, its next run past the horizon
SelectResponses ==
    {r \in FailedResponses : r.exc = "TimeoutError"}
    \cup {Response("none", 200, TRUE, [list |-> FALSE, runs |-> <<7200>>], d) :
            d \in AllDocs}

-----------------------------------------------------------------------------
(* async_update *)

\* except (asyncio.TimeoutError, aiohttp.ClientError)
FetchCaught == {"TimeoutError", "ClientError"}

\* an except clause that names ExpatError alone
ParseCaughtExpatOnly == {"ExpatError"}

\* except (ExpatError, IndexError)
ParseCaught == {"ExpatError", "IndexError"}

\* lines 192-196: self.data and self._nextrun after the parse of text, and
\* the exception that ended it ("none" for none)
Parse(text, olddata, oldrun) ==
    LET new == [loaded |-> TRUE, model |-> text.model, time |-> text.time]
    IN  CASE ~text.xml ->
                [data |-> olddata, nextrun |-> oldrun, exc |-> "ExpatError"]
          [] text.xml /\ text.model.list /\ text.model.runs = <<>> ->
                [data |-> new, nextrun |-> oldrun, exc |-> "IndexError"]
          [] OTHER ->
                [data |-> new, nextrun |-> text.model.runs[1], exc |-> "none"]

\* the gate read on the minute of the failure, not of nxt
RetryPointByNow(t) ==
    IF Minute(t) >= RetryGate THEN t + RetryDelay ELSE NoTime

\* try_again: nxt when the one-shot refresh is armed, NoTime when not
RetryPoint(t) ==
    IF Minute(t + RetryDelay) >= RetryGate THEN t + RetryDelay ELSE NoTime

Arm(pts, p) == IF p = NoTime THEN pts ELSE Append(pts, p)

Record(outcome, before, reached, sel, any, armed, tried, exc) ==
    [outcome |-> outcome, at |-> now, before |-> before, reached |-> reached,
     sel |-> sel, any |-> any, armed |-> armed, tried |-> tried,
     raised |-> exc]

\* a refresh that ends in try_again(err); return
TryAgain(outcome) ==
    /\ nextrun' = NoTime
    /\ points' = Arm(points, RetryPoint(now))
    /\ skipped' = IF RetryPoint(now) = NoTime THEN skipped \cup {now}
                  ELSE skipped
    /\ tasks' = {}
    /\ last' = Record(outcome, state, FALSE, NoSelection, FALSE,
                      RetryPoint(now), TRUE, FALSE)
    /\ failed' = TRUE
    /\ UNCHANGED <<state, good>>

\* a refresh that an exception no except clause names leaves
Raise(outcome) ==
    /\ tasks' = {}
    /\ last' = Record(outcome, state, FALSE, NoSelection, FALSE, NoTime,
                      FALSE, TRUE)
    /\ UNCHANGED <<nextrun, points, skipped, state, good, failed>>

\* lines 201-262 on the document d
Selection(outcome, d) ==
    LET s == Select(d.time, now, forecast, state)
    IN  /\ state' = s.state
        /\ tasks' = s.tasks
        /\ last' = Record(outcome, state, TRUE, s.sel, s.any, NoTime,
                          FALSE, FALSE)

\* a fetch condition that reads "self._nextrun is None" alone
BeginOnce ==
    IF nextrun = NoTime
    THEN /\ fetching' = Append(fetching, now)
         /\ overlapped' = (overlapped \/ fetching # <<>>)
         /\ failed' = FALSE
         /\ UNCHANGED <<nextrun, data, state, tasks, good, last>>
    ELSE /\ Selection("cached", data)
         /\ UNCHANGED <<nextrun, data, good, fetching, overlapped, failed>>

\* async_update up to its first suspension: the fetch is issued, or the
\* stored document is used
Begin ==
    IF nextrun = NoTime \/ now >= nextrun
    THEN /\ fetching' = Append(fetching, now)
         /\ overlapped' = (overlapped \/ fetching # <<>>)
         /\ failed' = FALSE
         /\ UNCHANGED <<nextrun, data, state, tasks, good, last>>
    ELSE /\ Selection("cached", data)
         /\ UNCHANGED <<nextrun, data, good, fetching, overlapped, failed>>

\* yield from weather.async_update() of async_setup_platform
InitialUpdate ==
    /\ pending
    /\ pending' = FALSE
    /\ Begin
    /\ UNCHANGED <<points, skipped>>
    /\ UNCHANGED <<now, forecast, hourly>>
    /\ UNCHANGED zwvars

\* the listener of async_track_utc_time_change, once every hour
HourlyUpdate ==
    /\ ~pending
    /\ hourly = now
    /\ hourly' = hourly + HourSeconds
    /\ Begin
    /\ UNCHANGED <<points, skipped>>
    /\ UNCHANGED <<now, forecast, pending>>
    /\ UNCHANGED zwvars

\* the one-shot listener of async_track_point_in_utc_time
PointUpdate ==
    /\ ~pending
    /\ points # <<>>
    /\ Head(points) = now
    /\ Begin
    /\ points' = Tail(points)
    /\ UNCHANGED skipped
    /\ UNCHANGED <<now, forecast, pending, hourly>>
    /\ UNCHANGED zwvars

Without(s, i) == SubSeq(s, 1, i - 1) \o SubSeq(s, i + 1, Len(s))

\* async_update from the answer r to its fetch on: lines 182-262
Resume(r) ==
    IF r.exc # "none"
    THEN IF r.exc \in FetchCaught
         THEN TryAgain(r.exc) /\ UNCHANGED data
         ELSE Raise(r.exc) /\ UNCHANGED data
    ELSE IF r.status # 200
    THEN TryAgain("Status") /\ UNCHANGED data
    ELSE LET p == Parse(r.text, data, nextrun)
         IN  IF p.exc = "none"
             THEN /\ data' = p.data
                  /\ nextrun' = p.nextrun
                  /\ good' = p.data
                  /\ Selection("ok", p.data)
                  /\ UNCHANGED <<points, skipped, failed>>
             ELSE IF p.exc \in ParseCaught
             THEN TryAgain(p.exc) /\ data' = p.data
             ELSE Raise(p.exc) /\ data' = p.data

\* one suspended async_update gets the answer to its fetch; the answer at the
\* timeout is asyncio.TimeoutError
FetchDone(responses) ==
    \E i \in 1..Len(fetching) : \E r \in responses :
        /\ (r.exc = "TimeoutError") <=> (now = fetching[i] + FetchTimeout)
        /\ fetching' = Without(fetching, i)
        /\ Resume(r)
        /\ UNCHANGED <<now, forecast, pending, hourly, overlapped>>
        /\ UNCHANGED zwvars

\* the instants at which something is due
Due ==
    {hourly} \cup {points[i] : i \in 1..Len(points)}
    \cup {fetching[i] + FetchTimeout : i \in 1..Len(fetching)}

\* time passes to the next instant at which something is due
Tick ==
    /\ ~pending
    /\ SetMin(Due) > now
    /\ SetMin(Due) <= MaxTime
    /\ now' = SetMin(Due)
    /\ UNCHANGED <<forecast, nextrun, data, state, hourly, points, fetching,
                   pending, tasks, good, last, skipped, overlapped, failed>>
    /\ UNCHANGED zwvars

-----------------------------------------------------------------------------
(* The Z-Wave device_config view *)

\* JSON values
JBool(b) == [type |-> "bool", v |-> IF b THEN 1 ELSE 0]
JInt(n) == [type |-> "int", v |-> n]

\* the schema of the options: ignored is a bool, polling_intensity an int
SchemaType(key) ==
    CASE key = "ignored" -> "bool"
      [] key = "polling_intensity" -> "int"
      [] OTHER -> "none"

\* the entity ids of the requests, and those that are entity ids
EntityIds == {"hello.beer", "other.entity", "invalid_entity"}
ValidEntityIds == {"hello.beer", "other.entity"}

NoOptions == [k \in {} |-> JInt(0)]
NoConfig == [e \in {} |-> NoOptions]

\* the bodies of the requests: text that is not JSON, and every object over
\* the keys below
BodyKeys == {"ignored", "polling_intensity", "invalid_option"}
BodyValues == {JBool(TRUE), JBool(FALSE), JInt(2)}

Bodies ==
    {[json |-> FALSE, obj |-> NoOptions]}
    \cup {[json |-> TRUE, obj |-> o] :
            o \in UNION {[ks -> BodyValues] : ks \in SUBSET BodyKeys}}

\* orig_data of test_update_device_config
OrigData ==
    [e \in ValidEntityIds |->
        IF e = "hello.beer" THEN [k \in {"ignored"} |-> JBool(TRUE)]
        ELSE [k \in {"polling_intensity"} |-> JInt(2)]]

\* the body is an object of options of the schema
ValidData(obj) == \A k \in DOMAIN obj : obj[k].type = SchemaType(k)

\* the options of an entity with the posted ones set
Update(old, obj) ==
    [k \in DOMAIN old \cup DOMAIN obj |->
        IF k \in DOMAIN obj THEN obj[k] ELSE old[k]]

\* the posted options alone, the entity's other options dropped
Overwrite(config, e, obj) ==
    [x \in DOMAIN config \cup {e} |-> IF x = e THEN obj ELSE config[x]]

\* the stored configuration with the posted options merged into the entity's
Merge(config, e, obj) ==
    [x \in DOMAIN config \cup {e} |->
        IF x = e
        THEN Update(IF e \in DOMAIN config THEN config[e] ELSE NoOptions, obj)
        ELSE config[x]]

\* the request is answered 400
Rejected(e, body) ==
    \/ ~body.json
    \/ e \notin ValidEntityIds
    \/ ~ValidData(body.obj)

\* a rejected request that still writes the options the schema knows
WrittenPartly(config, e, body) ==
    IF body.json /\ e \in ValidEntityIds
    THEN <<Merge(config, e,
                 [k \in {x \in DOMAIN body.obj :
                            body.obj[x].type = SchemaType(x)} |->
                     body.obj[k]])>>
    ELSE <<>>

\* what a rejected request writes: nothing
WrittenOnReject(config, e, body) == <<>>

NoResponse ==
    [status |-> 0, result |-> "", entity |-> "",
     body |-> [json |-> FALSE, obj |-> NoOptions], before |-> NoConfig]

\* POST /api/config/zwave/device_config/{entity_id}
Post(e, body) ==
    /\ written' = IF Rejected(e, body) THEN WrittenOnReject(stored, e, body)
                  ELSE <<Merge(stored, e, body.obj)>>
    /\ stored' = IF written' = <<>> THEN stored ELSE written'[Len(written')]
    /\ resp' = [status |-> IF Rejected(e, body) THEN 400 ELSE 200,
                result |-> IF Rejected(e, body) THEN "" ELSE "ok",
                entity |-> e, body |-> body, before |-> stored]
    /\ UNCHANGED yrvars

ZwavePost == \E e \in EntityIds : \E body \in Bodies : Post(e, body)

-----------------------------------------------------------------------------
(* The specifications *)

\* the instants of the setup
StartTimes == {0, 55, 2699, 2700}

\* minute=randrange(1, 10) and second=randrange(0, 59): the extremes
RandMinutes == {1, 9}
RandSeconds == {0}

\* CONF_FORECAST
Forecasts == {0, 1}

\* the first instant after t with the given minute and second
FirstAfter(t, m, s) ==
    IF Hour(t) * HourSeconds + m * 60 + s > t
    THEN Hour(t) * HourSeconds + m * 60 + s
    ELSE (Hour(t) + 1) * HourSeconds + m * 60 + s

NoRefresh ==
    [outcome |-> "none", at |-> NoTime, before |-> [dev \in Devices |-> None],
     reached |-> FALSE, sel |-> NoSelection, any |-> FALSE, armed |-> NoTime,
     tried |-> FALSE, raised |-> FALSE]

\* YrData.__init__ and YrSensor.__init__, the hourly listener registered
Constructed(starts, minutes, seconds, forecasts) ==
    /\ now \in starts
    /\ forecast \in forecasts
    /\ nextrun = NoTime
    /\ data = NoData
    /\ state = [dev \in Devices |-> None]
    /\ \E m \in minutes, s \in seconds : hourly = FirstAfter(now, m, s)
    /\ points = <<>>
    /\ fetching = <<>>
    /\ pending = TRUE
    /\ tasks = {}
    /\ good = NoData
    /\ last = NoRefresh
    /\ skipped = {}
    /\ overlapped = FALSE
    /\ failed = FALSE

ZwaveIdle ==
    /\ stored = OrigData
    /\ written = <<>>
    /\ resp = NoResponse

Init == Constructed(StartTimes, RandMinutes, RandSeconds, {0}) /\ ZwaveIdle

Next ==
    \/ InitialUpdate
    \/ HourlyUpdate
    \/ PointUpdate
    \/ FetchDone(ServerResponses)
    \/ Tick

Spec == Init /\ [][Next]_vars

\* the event loop runs every callback that is due, the clock goes on, and
\* every get returns or runs into its timeout
Fairness ==
    /\ WF_vars(InitialUpdate)
    /\ WF_vars(HourlyUpdate)
    /\ WF_vars(PointUpdate)
    /\ WF_vars(FetchDone(ServerResponses))
    /\ WF_vars(Tick)

SpecLive == Init /\ [][Next]_vars /\ Fairness

\* the selection over every document: the setup on the hour
InitSelect == Constructed({0, 3600}, {1}, {0}, Forecasts) /\ ZwaveIdle

NextSelect ==
    \/ InitialUpdate
    \/ HourlyUpdate
    \/ PointUpdate
    \/ FetchDone(SelectResponses)
    \/ Tick

SpecSelect == InitSelect /\ [][NextSelect]_vars

\* the device_config view alone: the file of the test, or an empty one
InitZwave ==
    /\ Constructed({0}, {1}, {0}, {0})
    /\ stored \in {OrigData, NoConfig}
    /\ written = <<>>
    /\ resp = NoResponse

NextZwave == ZwavePost

SpecZwave == InitZwave /\ [][NextZwave]_vars

-----------------------------------------------------------------------------
(* What the claims speak of, stated apart from the code's sort and scan.   *)

\* the document and the instant of the last refresh that reached selection
LastTime == data.time

\* the entries that have not passed at instant t
Live(time, t) == {i \in 1..Len(time) : time[i].to > t}

\* those of them that hold the device's variable
Holding(time, t, dev) ==
    {i \in Live(time, t) : dev \in DOMAIN time[i].location}

\* |validTo - targetInstant| + |validFrom - targetInstant|
Score(time, i, t, fc) ==
    LET target == t + fc * 3600
        a == time[i].to - target
        b == time[i].from - target
    IN  (IF a >= 0 THEN a ELSE 0 - a) + (IF b >= 0 THEN b ELSE 0 - b)

\* the entries of smallest score among those that hold the variable
Best(time, t, fc, dev) ==
    {i \in Holding(time, t, dev) :
        \A j \in Holding(time, t, dev) :
            Score(time, i, t, fc) <= Score(time, j, t, fc)}

\* the value a sensor shows for entry i
ValueOf(time, i, dev) == Extract(dev, time[i].location)

\* the refresh ended in one of the failures the code sends to try_again
Failures == {"TimeoutError", "ClientError", "Status", "ExpatError",
             "IndexError"}

-----------------------------------------------------------------------------
(* C1 *)

\* C1: in every refresh that reaches the selection, no device's state is
\* taken from a time entry whose validTo is at or before the instant of the
\* refresh: the entry a device's state was read from has not passed, and
\* the state is the value of that entry.
C1_ExpiredNeverSelected ==
    last.reached =>
        \A dev \in Devices :
            /\ \A i \in 1..Len(LastTime) :
                  LastTime[i].to <= last.at => last.sel[dev] # i
            /\ last.sel[dev] # 0 =>
                  state[dev] = ValueOf(LastTime, last.sel[dev], dev)

\* an entry that holds the variable ends at the very instant of the refresh,
\* and the device's state is read from another entry
C1_Witness ==
    /\ last.reached
    /\ \E dev \in Devices : \E i \in 1..Len(LastTime) :
          /\ LastTime[i].to = last.at
          /\ dev \in DOMAIN LastTime[i].location
          /\ last.sel[dev] \notin {0, i}

-----------------------------------------------------------------------------
(* C4 *)

\* C4 as claimed: after every refresh that reaches the selection a device
\* holds the value of an entry of smallest score among the entries that
\* have not passed and hold its variable, and None when there is no such
\* entry, also when no entry of the document is left.
C4_AsClaimed ==
    last.reached =>
        \A dev \in Devices :
            IF Holding(LastTime, last.at, dev) = {}
            THEN state[dev] = None
            ELSE \E i \in Best(LastTime, last.at, forecast, dev) :
                    state[dev] = ValueOf(LastTime, i, dev)

\* C4 as amended: after every refresh that reaches the selection, when some
\* entry has not passed, a device holds the value of an entry of smallest
\* score among the entries that have not passed and hold its variable, and
\* None when none of them holds it; when every entry has passed, the device
\* keeps the state it held before the refresh.
C4_SmallestScore ==
    last.reached =>
        \A dev \in Devices :
            IF Live(LastTime, last.at) = {}
            THEN state[dev] = last.before[dev]
            ELSE IF Holding(LastTime, last.at, dev) = {}
            THEN state[dev] = None
            ELSE \E i \in Best(LastTime, last.at, forecast, dev) :
                    /\ last.sel[dev] = i
                    /\ state[dev] = ValueOf(LastTime, i, dev)

\* every entry has passed and a device keeps a value from an earlier refresh
C4_Witness ==
    /\ last.reached
    /\ LastTime # <<>>
    /\ Live(LastTime, last.at) = {}
    /\ \E dev \in Devices : state[dev] # None

-----------------------------------------------------------------------------
(* C5 *)

\* C5: when several entries that have not passed and hold a device's
\* variable share the smallest score, the device's state is read from the
\* one that comes first in the document.
C5_TieEarlier ==
    last.reached =>
        \A dev \in Devices :
            \A i, j \in Best(LastTime, last.at, forecast, dev) :
                i < j => /\ last.sel[dev] # j
                         /\ last.sel[dev] # 0
                         /\ last.sel[dev] <= i
                         /\ state[dev] = ValueOf(LastTime, last.sel[dev], dev)

\* two entries of different windows tie with different values, and the
\* earlier one's value is held
C5_Witness ==
    /\ last.reached
    /\ \E dev \in Devices :
          \E i, j \in Best(LastTime, last.at, forecast, dev) :
              /\ i < j
              /\ LastTime[i].from # LastTime[j].from
              /\ ValueOf(LastTime, i, dev) # ValueOf(LastTime, j, dev)
              /\ state[dev] = ValueOf(LastTime, i, dev)

-----------------------------------------------------------------------------
(* C6 *)

\* the value the selection yields for a device: the value of the first
\* entry of smallest score that holds its variable, None when none does
Selected(time, t, fc, dev) ==
    IF Best(time, t, fc, dev) = {} THEN None
    ELSE ValueOf(time, SetMin(Best(time, t, fc, dev)), dev)

\* C6 as claimed: a refresh dispatches a device's state update exactly when
\* the value selected for it differs from the state it held before the
\* refresh, and its state changes only together with that update.
C6_AsClaimed ==
    last.reached =>
        \A dev \in Devices :
            /\ dev \in tasks <=>
                  Selected(LastTime, last.at, forecast, dev) # last.before[dev]
            /\ state[dev] # last.before[dev] => dev \in tasks

\* C6 as amended: a refresh dispatches a device's state update exactly when
\* it reaches the selection, some entry of its document has not passed, and
\* the value selected for the device differs from the state it held before
\* the refresh; the device's state changes exactly when the update is
\* dispatched, and it changes to the selected value.
C6_EventIffChanged ==
    last.outcome # "none" =>
        \A dev \in Devices :
            /\ dev \in tasks <=>
                  /\ last.reached
                  /\ Live(LastTime, last.at) # {}
                  /\ Selected(LastTime, last.at, forecast, dev)
                        # last.before[dev]
            /\ dev \in tasks <=> state[dev] # last.before[dev]
            /\ dev \in tasks =>
                  state[dev] = Selected(LastTime, last.at, forecast, dev)

\* a refresh over the stored document selects again the values the devices
\* hold, and dispatches nothing
C6_Witness ==
    /\ last.outcome = "cached"
    /\ Live(LastTime, last.at) # {}
    /\ tasks = {}
    /\ \A dev \in Devices :
          /\ state[dev] # None
          /\ state[dev] = Selected(LastTime, last.at, forecast, dev)

-----------------------------------------------------------------------------
(* C2 *)

\* C2: the stored document is always the last document that was fetched
\* and parsed with no error; a refresh that fails leaves it as it was.
C2_DocumentAtomic == data = good

-----------------------------------------------------------------------------
(* C3 *)

-----------------------------------------------------------------------------
(* C7 *)

\* the one-shot refreshes that are armed
Armed == {points[i] : i \in 1..Len(points)}

\* C7 as amended: after a refresh that failed at instant t, nextrun is
\* cleared, and a one-shot refresh is armed for t + 15 minutes exactly when
\* the minute of the hour of t + 15 minutes is at least 15, which is when
\* the minute of t is below 45; after a failure in minutes 45..59 none is
\* armed.
C7_RetryGate ==
    last.outcome \in Failures =>
        /\ nextrun = NoTime
        /\ last.armed = last.at + 900 <=> ((last.at + 900) \div 60) % 60 >= 15
        /\ last.armed = NoTime <=> (last.at \div 60) % 60 \in 45..59
        /\ last.armed \in {NoTime, last.at + 900}
        /\ (last.armed # NoTime /\ now < last.armed) => last.armed \in Armed
        /\ last.armed = NoTime => (last.at \in skipped
                                   /\ last.at + 900 \notin Armed)

\* C7 as claimed: the same, and at most one retry is skipped in a clock
\* hour; it is stated of the runs in which no two fetches were in flight
\* together, where it fails as well.
C7_AsClaimed ==
    /\ C7_RetryGate
    /\ ~overlapped =>
          \A t1, t2 \in skipped : t1 \div 3600 = t2 \div 3600 => t1 = t2

\* a refresh has failed in the last quarter of an hour, with no retry
\* armed, and a later refresh fails and arms its retry
C7_Witness ==
    /\ last.outcome \in Failures
    /\ last.armed = last.at + 900
    /\ last.armed \in Armed
    /\ skipped # {}

-----------------------------------------------------------------------------
(* C8 *)

\* C8: at no instant are two fetches of the YrData object in flight.
C8_NoConcurrentFetch == Len(fetching) <= 1

-----------------------------------------------------------------------------
(* C9 *)

\* C9: a POST whose entity id is not an entity id, whose body is not JSON,
\* or whose body holds a key outside the schema is answered 400, and a
\* request answered 400 writes nothing: the stored configuration is the one
\* before the request.
C9_RejectedNoWrite ==
    resp.status # 0 =>
        /\ ( \/ resp.entity \notin ValidEntityIds
             \/ ~resp.body.json
             \/ \E k \in DOMAIN resp.body.obj :
                    k \notin {"ignored", "polling_intensity"} )
           => resp.status = 400
        /\ resp.status = 400 => (written = <<>> /\ stored = resp.before)

\* a body with a key of the schema and a key outside it, for an entity of
\* the stored configuration, is answered 400
C9_Witness ==
    /\ resp.status = 400
    /\ resp.entity \in DOMAIN resp.before
    /\ resp.body.json
    /\ "invalid_option" \in DOMAIN resp.body.obj
    /\ "polling_intensity" \in DOMAIN resp.body.obj
    /\ resp.body.obj["polling_intensity"] = JInt(2)
    /\ "polling_intensity" \notin DOMAIN resp.before[resp.entity]

-----------------------------------------------------------------------------
(* C10 *)

\* C10: a POST answered 200 is answered {"result": "ok"} and writes once;
\* what it writes, and what is stored after it, is the configuration before
\* the request with the posted keys set on the entity: the entity's other
\* keys and every other entity are as before.
C10_MergedWrite ==
    resp.status = 200 =>
        LET before == resp.before
            e == resp.entity
            obj == resp.body.obj
            old == IF e \in DOMAIN before THEN before[e] ELSE NoOptions
        IN  /\ resp.result = "ok"
            /\ Len(written) = 1
            /\ written[1] = stored
            /\ DOMAIN stored = DOMAIN before \cup {e}
            /\ \A x \in DOMAIN before : x # e => stored[x] = before[x]
            /\ DOMAIN stored[e] = DOMAIN old \cup DOMAIN obj
            /\ \A k \in DOMAIN obj : stored[e][k] = obj[k]
            /\ \A k \in DOMAIN old : k \notin DOMAIN obj =>
                  stored[e][k] = old[k]

\* test_update_device_config: polling_intensity 2 posted for hello.beer
C10_Witness ==
    /\ resp.status = 200
    /\ resp.before = OrigData
    /\ resp.entity = "hello.beer"
    /\ DOMAIN resp.body.obj = {"polling_intensity"}
    /\ resp.body.obj["polling_intensity"] = JInt(2)
    /\ stored["hello.beer"]["ignored"] = JBool(TRUE)
    /\ stored["hello.beer"]["polling_intensity"] = JInt(2)
    /\ stored["other.entity"] = OrigData["other.entity"]
-----------------------------------------------------------------------------
(* C11 *)

\* a step that begins async_update: the setup's call, the hourly listener
\* or a one-shot refresh
Invoked ==
    \/ pending /\ ~pending'
    \/ hourly' # hourly
    \/ Len(points') < Len(points)

\* a step that issues a fetch at this instant
Fetched ==
    /\ Len(fetching') = Len(fetching) + 1
    /\ fetching'[Len(fetching')] = now

\* nothing is due within the horizon any more
AtHorizon == SetMin(Due) > MaxTime

====
